---- MODULE Spec2Model ----
(***************************************************************************)
(* MoyServer (src/app.js): the parser/template registry, its periodic      *)
(* refresh and the /render request handler, as a state machine over the    *)
(* Node.js event loop.  A macrotask (timer, network completion, incoming   *)
(* request) runs only when no promise reaction (microtask) is pending.     *)
(***************************************************************************)
EXTENDS Integers, Sequences, FiniteSets, TLC

(***************************************************************************)
(* Program constants                                                       *)
(***************************************************************************)
PARSERS_DIR == "MoyParsers"
TEMPLATES_DIR == "MoyTemplates"
ORIGINAL_LOOK_NAME == <<"O","r","i","g","i","n","a","l"," ","l","o","o","k">>

SECOND == 1000
MINUTE == 60 * SECOND
HOUR == 60 * MINUTE

REFRESH_INTERVAL == 5 * HOUR
CHECK_INTERVAL == 5 * MINUTE

(***************************************************************************)
(* Bounds of the model                                                     *)
(***************************************************************************)
\* at most this many /render requests are being served at once
MaxRequests == 1
\* refreshData() creates at most this many promise chains in one behaviour
MaxAttempts == 2
\* the clock advances at most this many times in one behaviour
MaxClockSteps == 2
\* arrays and objects are nested at most this deep in a parsed value
MaxDepth == 2

Dirs == {PARSERS_DIR, TEMPLATES_DIR}
AttemptIds == 1..MaxAttempts
RequestIds == 1..MaxRequests

\* Date.now() when the process starts; any real clock is far beyond
\* REFRESH_INTERVAL milliseconds after the epoch
BootTime == 2 * REFRESH_INTERVAL
\* the amounts by which the clock is observed to advance
TimeSteps == {CHECK_INTERVAL, REFRESH_INTERVAL}
ClockSteps(t) ==
    ((t - BootTime) \div REFRESH_INTERVAL)
        + (((t - BootTime) % REFRESH_INTERVAL) \div CHECK_INTERVAL)

(***************************************************************************)
(* Remote definitions.  A listed file holds one definition; the entity     *)
(* built from it takes its name from the definition.                       *)
(***************************************************************************)
ParserDefs == {"PA", "PB"}
TemplateDefs == {"TO", "TP", "TC"}

DefName(def) ==
    CASE def = "PA" -> <<"A">>
      [] def = "PB" -> <<"B">>
      [] def = "TO" -> ORIGINAL_LOOK_NAME
      [] def = "TP" -> <<" ">> \o ORIGINAL_LOOK_NAME \o <<" ">>
      [] def = "TC" -> <<"C","o","m","p","a","c","t">>

\* the directory listings the catalog host may answer with
Listings(dirname) ==
    IF dirname = PARSERS_DIR
    THEN {<<"PB", "PA">>, <<"PA", "PA">>}
    ELSE {<<"TO", "TC">>, <<"TC", "TP">>}

\* download_url of the i-th file of a listing
DownloadUrl(dirname, i) == <<dirname, "/", ToString(i)>>

(***************************************************************************)
(* Values                                                                  *)
(***************************************************************************)
NoPromise == 0                       \* state.refreshDataPromise = null
NoError == [type |-> "null"]         \* state.lastRefreshError = null
Error(msg) == [type |-> "Error", message |-> msg]
IsError(e) == e.type = "Error"       \* e instanceof Error

Pending == [state |-> "pending", value |-> NoError]
Fulfilled(v) == [state |-> "fulfilled", value |-> v]
Rejected(e) == [state |-> "rejected", value |-> e]

EmptyMap == <<>>                     \* new Map()

\* a /render request suspended on its page fetch holds the entries it
\* resolved and the url the fetch targets
NoQuery == [url |-> <<>>, template |-> <<>>]
NoRequest == [pc |-> "idle", query |-> NoQuery, url |-> <<>>,
              template |-> NoError, parser |-> NoError]
\* an http response as sent: the status line, the body, and the query of
\* the request it answers
NoResponse == [status |-> 0, body |-> <<>>, req |-> NoQuery]

\* a token value: a string, an array or an object (its values in key
\* order); custom says that the array has customArrayToString as toString
Str(s) == [t |-> "str", v |-> s, items |-> <<>>, custom |-> FALSE]
Arr(items) == [t |-> "arr", v |-> <<>>, items |-> items, custom |-> FALSE]
Obj(values) == [t |-> "obj", v |-> <<>>, items |-> values, custom |-> FALSE]
\* the locals of a render that threw before it had parsed the page
NoRun == [parsed |-> Str(<<>>), tokens |-> <<>>]

VARIABLES
    parsers,             \* state.parsers: a Map, as the sequence of its entries
    templates,           \* state.templates
    lastRefresh,         \* state.lastRefresh
    refreshDataPromise,  \* state.refreshDataPromise: NoPromise or a chain's id
    lastRefreshError,    \* state.lastRefreshError
    now,                 \* Date.now()
    server,              \* "starting" | "up" | "crashed"
    timers,              \* due times of the pending setTimeout callbacks
    attempts,            \* number of promise chains refreshData has created
    fm,                  \* the two fetchMap calls of each chain
    chain,               \* the promises of each chain
    reactions,           \* reactions callers attached to returned promises
    unhandled,           \* an unhandled promise rejection has happened
    reqs,                \* the /render requests being served
    lastResponse,        \* the response sent last
    lastRun              \* parsedData and tokens of the render that ended last

registry == <<parsers, templates, lastRefresh, refreshDataPromise, lastRefreshError>>
vars == <<parsers, templates, lastRefresh, refreshDataPromise, lastRefreshError,
          now, server, timers, attempts, fm, chain, reactions, unhandled,
          reqs, lastResponse, lastRun>>
web == <<reqs, lastResponse, lastRun>>

(***************************************************************************)
(* Map, as JavaScript keeps it: insertion ordered, a repeated key keeps    *)
(* its first position and takes the last value.                            *)
(***************************************************************************)
MapHas(m, k) == \E i \in 1..Len(m) : m[i].key = k

\* Variant: a repeated key moves to the end of the iteration order
MapSetMoveToEnd(m, k, v) ==
    Append(SelectSeq(m, LAMBDA e : e.key # k), [key |-> k, value |-> v])

MapSet(m, k, v) ==
    IF MapHas(m, k)
    THEN [i \in 1..Len(m) |-> IF m[i].key = k THEN [key |-> k, value |-> v] ELSE m[i]]
    ELSE Append(m, [key |-> k, value |-> v])

RECURSIVE NewMapFrom(_, _)
NewMapFrom(m, pairs) ==
    IF pairs = <<>> THEN m
    ELSE NewMapFrom(MapSet(m, Head(pairs).key, Head(pairs).value), Tail(pairs))

NewMap(pairs) == NewMapFrom(EmptyMap, pairs)

MapKeys(m) == {m[i].key : i \in 1..Len(m)}
MapValues(m) == [i \in 1..Len(m) |-> m[i].value]

\* Array.prototype.join, over messages that are token sequences
RECURSIVE Join(_, _)
Join(msgs, sep) ==
    IF msgs = <<>> THEN <<>>
    ELSE IF Len(msgs) = 1 THEN Head(msgs)
    ELSE Head(msgs) \o <<sep>> \o Join(Tail(msgs), sep)

\* String.prototype.trim
RECURSIVE TrimLeft(_)
TrimLeft(s) ==
    IF s # <<>> /\ Head(s) = " " THEN TrimLeft(Tail(s)) ELSE s
RECURSIVE TrimRight(_)
TrimRight(s) ==
    IF s # <<>> /\ s[Len(s)] = " " THEN TrimRight(SubSeq(s, 1, Len(s) - 1)) ELSE s
Trim(s) == TrimRight(TrimLeft(s))

(***************************************************************************)
(* Entity factory and catalog population                                   *)
(***************************************************************************)
\* createParser / createTemplate: the entity built by attempt a from the
\* i-th listed file; a fresh object each time
createEntity(a, def, i) ==
    [type |-> "entity", def |-> def, att |-> a, idx |-> i]
\* e.name
Name(e) == DefName(e.def)

\* fetchParser / fetchTemplate: the promise of one listed file once its
\* download has ended
fetchEntity(a, dirname, def, i, outcome) ==
    CASE outcome = "ok" -> Fulfilled(createEntity(a, def, i))
      [] outcome = "fetch" -> Rejected(Error(<<"Not Found", ": ">> \o DownloadUrl(dirname, i)))
      [] outcome = "construct" -> Rejected(Error(<<"YAMLException", ": ">> \o DownloadUrl(dirname, i)))
\* how the download of a listed file may end: a parser file fails in
\* transport, a template file by a malformed definition
FileOutcomes(dirname) ==
    IF dirname = PARSERS_DIR THEN {"ok", "fetch"} ELSE {"ok", "construct"}

\* Variant: a plain Promise.all over the file promises, which rejects with
\* the first rejection
allPossibleFailFast(promises) ==
    IF \E i \in 1..Len(promises) : promises[i].state = "rejected"
    THEN Rejected(promises[CHOOSE i \in 1..Len(promises) :
                               promises[i].state = "rejected"].value)
    ELSE IF \E i \in 1..Len(promises) : promises[i].state = "pending"
    THEN Pending
    ELSE Fulfilled([i \in 1..Len(promises) |-> promises[i].value])

\* Promise.all(promises.map(p => p.catch(e => e)))
allPossible(promises) ==
    IF \E i \in 1..Len(promises) : promises[i].state = "pending"
    THEN Pending
    ELSE Fulfilled([i \in 1..Len(promises) |-> promises[i].value])

\* Variant: the name is compared as it is, without trim()
templateFilterNoTrim(template) == ORIGINAL_LOOK_NAME # Name(template)

templateFilter(template) == ORIGINAL_LOOK_NAME # Trim(Name(template))
NotError(e) == ~IsError(e)

\* the entityFilter argument of fetchMap: a function, or undefined
NoFilter == "undefined"
TemplateFilter == "templateFilter"
Passes(entityFilter, e) ==
    IF entityFilter = TemplateFilter THEN templateFilter(e) ELSE TRUE

\* fetchMap after `await allPossible(...)`
fetchMapValue(entities, entityFilter) ==
    LET good == SelectSeq(entities, NotError)
        keep(e) == Passes(entityFilter, e)
        ok == IF entityFilter # NoFilter THEN SelectSeq(good, keep) ELSE good
        err == SelectSeq(entities, IsError)
    IN  [ok |-> NewMap([i \in 1..Len(ok) |-> [key |-> Name(ok[i]), value |-> ok[i]]]),
         error |-> err]

\* the entityFilter refreshData passes for a directory
EntityFilterOf(dirname) ==
    IF dirname = TEMPLATES_DIR THEN TemplateFilter ELSE NoFilter

\* one fetchMap call: st is "listing" (awaiting fetchDir), "files" (awaiting
\* allPossible), "fulfilled", "rejected", or "none" (no such call, or one
\* that is referenced no longer); listed says that fetchDir has returned
\* a list of files
NoCall == [st |-> "none", listed |-> FALSE, dir |-> <<>>, promises |-> <<>>,
           value |-> NoError]
NewCall == [NoCall EXCEPT !.st = "listing"]

\* the promises of one refreshData chain: Promise.all(...), .then, .catch
\* and .finally (the one refreshData returns), with the value Promise.all
\* fulfilled with and the reason of the rejection being passed down
NoChain == [all |-> "none", then |-> "none", catch |-> "none", fin |-> "none",
            value |-> <<>>, reason |-> NoError]
NewChain == [all |-> "pending", then |-> "pending", catch |-> "pending",
             fin |-> "pending", value |-> <<>>, reason |-> NoError]

Init ==
    /\ parsers = EmptyMap
    /\ templates = EmptyMap
    /\ lastRefresh = 0
    /\ refreshDataPromise = NoPromise
    /\ lastRefreshError = NoError
    /\ now = BootTime
    /\ server = "starting"
    /\ timers = <<>>
    /\ attempts = 0
    /\ fm = [a \in AttemptIds |-> [d \in Dirs |-> NoCall]]
    /\ chain = [a \in AttemptIds |-> NoChain]
    /\ reactions = <<>>
    /\ unhandled = FALSE
    /\ reqs = [r \in RequestIds |-> NoRequest]
    /\ lastResponse = NoResponse
    /\ lastRun = NoRun

(***************************************************************************)
(* Microtasks                                                              *)
(***************************************************************************)
FetchMapReady(a, d) ==
    fm[a][d].st = "files" /\ allPossible(fm[a][d].promises).state # "pending"
AllReady(a) ==
    /\ chain[a].all = "pending"
    /\ \/ \E d \in Dirs : fm[a][d].st = "rejected"
       \/ \A d \in Dirs : fm[a][d].st = "fulfilled"
ThenReady(a) == chain[a].all \in {"fulfilled", "rejected"} /\ chain[a].then = "pending"
CatchReady(a) == chain[a].then \in {"fulfilled", "rejected"} /\ chain[a].catch = "pending"
FinallyReady(a) == chain[a].catch \in {"fulfilled", "rejected"} /\ chain[a].fin = "pending"
ReactionReady ==
    reactions # <<>> /\ chain[Head(reactions)].fin \in {"fulfilled", "rejected"}

MicroPending ==
    \/ ReactionReady
    \/ \E a \in AttemptIds :
          \/ ThenReady(a) \/ CatchReady(a) \/ FinallyReady(a) \/ AllReady(a)
          \/ \E d \in Dirs : FetchMapReady(a, d)

\* a timer, a network completion or a request can be dispatched
LoopIdle == server = "up" /\ ~MicroPending

(***************************************************************************)
(* Registry refresh                                                        *)
(***************************************************************************)
\* Variant: refreshData without the test of state.refreshDataPromise
refreshDataNoGate ==
    /\ attempts < MaxAttempts
    /\ attempts' = attempts + 1
    /\ refreshDataPromise' = attempts + 1
    /\ fm' = [a \in AttemptIds |-> [d \in Dirs |->
                 IF a = attempts + 1 THEN NewCall ELSE NoCall]]
    /\ chain' = [chain EXCEPT ![attempts + 1] = NewChain]

\* refreshData(): its return value is refreshDataPromise'.  The fetchMap
\* calls of the chains that have settled are followed no further: no result
\* of theirs is read by anything
refreshData ==
    IF refreshDataPromise = NoPromise
    THEN /\ attempts < MaxAttempts
         /\ attempts' = attempts + 1
         /\ refreshDataPromise' = attempts + 1
         /\ fm' = [a \in AttemptIds |-> [d \in Dirs |->
                      IF a = attempts + 1 THEN NewCall ELSE NoCall]]
         /\ chain' = [chain EXCEPT ![attempts + 1] = NewChain]
    ELSE UNCHANGED <<attempts, refreshDataPromise, fm, chain>>

\* fetchDir's answer arrives; on success fetchMap starts every file fetch
\* (a listing, a response that is not ok, or a body that is no array)
ListingOutcomes(dirname) ==
    {[kind |-> "ok", dir |-> l] : l \in Listings(dirname)}
        \cup {[kind |-> "http", dir |-> <<>>], [kind |-> "malformed", dir |-> <<>>]}

\* the answers to a listing that make a refresh succeed, fail in part or
\* fail as a whole
SchedOutcomes(dirname) ==
    {o \in ListingOutcomes(dirname) :
        \/ o.kind = "http"
        \/ o.kind = "ok" /\ o.dir \in {<<"PB", "PA">>, <<"TO", "TC">>}}

fetchDirDone(call, dirname, outcome) ==
    CASE outcome.kind = "ok" ->
            [call EXCEPT !.st = "files", !.listed = TRUE, !.dir = outcome.dir,
                         !.promises = [i \in 1..Len(outcome.dir) |-> Pending]]
      [] outcome.kind = "http" ->
            [call EXCEPT !.st = "rejected",
                         !.value = Error(<<"Forbidden", ": ", dirname>>)]
      [] outcome.kind = "malformed" ->
            [call EXCEPT !.st = "rejected",
                         !.value = Error(<<"TypeError", ": ", "dir.map is not a function">>)]

ListingDone(a, d, outcome) ==
    /\ fm[a][d].st = "listing"
    /\ LoopIdle
    /\ fm' = [fm EXCEPT ![a][d] = fetchDirDone(@, d, outcome)]
    /\ UNCHANGED <<registry, now, server, timers, attempts, chain, reactions, unhandled, web>>

\* the download of one listed file ends and its entity is built, or not
FileDone(a, d, i, outcome) ==
    /\ fm[a][d].st = "files"
    /\ i \in 1..Len(fm[a][d].promises)
    /\ fm[a][d].promises[i].state = "pending"
    /\ LoopIdle
    /\ fm' = [fm EXCEPT ![a][d].promises[i] =
                  fetchEntity(a, d, fm[a][d].dir[i], i, outcome)]
    /\ UNCHANGED <<registry, now, server, timers, attempts, chain, reactions, unhandled, web>>

\* fetchMap resumes after `await allPossible(...)` and returns
fetchMapResume(call, dirname) ==
    LET entities == allPossible(call.promises)
    IN  IF entities.state = "rejected"
        THEN [call EXCEPT !.st = "rejected", !.value = entities.value]
        ELSE [call EXCEPT !.st = "fulfilled",
                          !.value = fetchMapValue(entities.value, EntityFilterOf(dirname))]

FetchMapResume(a, d) ==
    /\ FetchMapReady(a, d)
    /\ fm' = [fm EXCEPT ![a][d] =
                  IF chain[a].all = "pending" THEN fetchMapResume(@, d) ELSE NoCall]
    /\ UNCHANGED <<registry, now, server, timers, attempts, chain, reactions, unhandled, web>>

\* Variant: Promise.allSettled semantics, a rejected call counting as an
\* empty result
promiseAllSettled(calls) ==
    IF \E d \in Dirs : calls[d].st \notin {"fulfilled", "rejected"}
    THEN Pending
    ELSE Fulfilled([i \in 1..2 |->
                       LET call == calls[IF i = 1 THEN PARSERS_DIR ELSE TEMPLATES_DIR]
                       IN  IF call.st = "rejected"
                           THEN [ok |-> EmptyMap, error |-> <<call.value>>]
                           ELSE call.value])

\* Promise.all([fetchMap(...), fetchMap(...)]) settles: rejected with the
\* first rejection, fulfilled once both calls are
promiseAll(calls) ==
    IF \E d \in Dirs : calls[d].st = "rejected"
    THEN Rejected((CHOOSE d \in Dirs : calls[d].st = "rejected"))
    ELSE Fulfilled(<<calls[PARSERS_DIR].value, calls[TEMPLATES_DIR].value>>)

AllSettle(a) ==
    /\ AllReady(a)
    /\ LET p == promiseAll(fm[a])
       IN  chain' = [chain EXCEPT ![a].all = p.state,
                                  ![a].value = IF p.state = "fulfilled"
                                               THEN p.value ELSE <<>>,
                                  ![a].reason = IF p.state = "rejected"
                                                THEN fm[a][p.value].value ELSE NoError]
    /\ UNCHANGED <<registry, now, server, timers, attempts, fm, reactions, unhandled, web>>

\* the aggregate error the .then handler throws
aggregateError(res) ==
    Error(Join([i \in 1..Len(res[1].error) |-> res[1].error[i].message], "\n")
            \o <<"\n">>
            \o Join([i \in 1..Len(res[2].error) |-> res[2].error[i].message], "\n"))

\* Variant: only the parsers' errors make the .then handler throw
thenThrowsParsersOnly(res) == Len(res[1].error) > 0

\* .then(res => {...}): skipped when Promise.all rejected
thenThrows(res) == Len(res[1].error) > 0 \/ Len(res[2].error) > 0

\* the chains, once chain a has replaced the catalogs: the results of the
\* others are referenced no longer
Released(a) ==
    [b \in AttemptIds |-> IF b = a THEN chain[b] ELSE [chain[b] EXCEPT !.value = <<>>]]

\* Variant: the .then handler throws before it assigns state.templates
ThenStepTorn(a) ==
    /\ ThenReady(a)
    /\ IF chain[a].all = "fulfilled"
       THEN LET res == chain[a].value
            IN  /\ parsers' = res[1].ok
                /\ IF thenThrows(res)
                   THEN /\ chain' = [Released(a) EXCEPT ![a].then = "rejected",
                                                        ![a].reason = aggregateError(res)]
                        /\ UNCHANGED <<templates, lastRefreshError>>
                   ELSE /\ templates' = res[2].ok
                        /\ lastRefreshError' = NoError
                        /\ chain' = [Released(a) EXCEPT ![a].then = "fulfilled"]
       ELSE /\ chain' = [chain EXCEPT ![a].then = "rejected"]
            /\ UNCHANGED <<parsers, templates, lastRefreshError>>
    /\ UNCHANGED <<lastRefresh, refreshDataPromise, now, server, timers, attempts, fm,
                   reactions, unhandled, web>>

ThenStep(a) ==
    /\ ThenReady(a)
    /\ IF chain[a].all = "fulfilled"
       THEN LET res == chain[a].value
            IN  /\ parsers' = res[1].ok
                /\ templates' = res[2].ok
                /\ IF thenThrows(res)
                   THEN /\ chain' = [Released(a) EXCEPT ![a].then = "rejected",
                                                        ![a].reason = aggregateError(res)]
                        /\ UNCHANGED lastRefreshError
                   ELSE /\ lastRefreshError' = NoError
                        /\ chain' = [Released(a) EXCEPT ![a].then = "fulfilled"]
       ELSE /\ chain' = [chain EXCEPT ![a].then = "rejected"]
            /\ UNCHANGED <<parsers, templates, lastRefreshError>>
    /\ UNCHANGED <<lastRefresh, refreshDataPromise, now, server, timers, attempts, fm,
                   reactions, unhandled, web>>

\* Variant: the .catch handler records the error and throws it again
CatchStepRethrow(a) ==
    /\ CatchReady(a)
    /\ IF chain[a].then = "rejected"
       THEN /\ lastRefreshError' = chain[a].reason
            /\ chain' = [chain EXCEPT ![a].catch = "rejected"]
       ELSE /\ chain' = [chain EXCEPT ![a].catch = "fulfilled"]
            /\ UNCHANGED lastRefreshError
    /\ UNCHANGED <<parsers, templates, lastRefresh, refreshDataPromise, now, server,
                   timers, attempts, fm, reactions, unhandled, web>>

\* .catch(e => {...}): skipped when the .then promise fulfilled
CatchStep(a) ==
    /\ CatchReady(a)
    /\ IF chain[a].then = "rejected"
       THEN /\ lastRefreshError' = chain[a].reason
            /\ chain' = [chain EXCEPT ![a].catch = "fulfilled", ![a].reason = NoError]
       ELSE /\ chain' = [chain EXCEPT ![a].catch = "fulfilled"]
            /\ UNCHANGED lastRefreshError
    /\ UNCHANGED <<parsers, templates, lastRefresh, refreshDataPromise, now, server,
                   timers, attempts, fm, reactions, unhandled, web>>

\* Variant: the cleanup leaves state.refreshDataPromise in place while a
\* listing or a file of the attempt is still being fetched
FinallyStepWhenDrained(a) ==
    /\ FinallyReady(a)
    /\ lastRefresh' = now
    /\ refreshDataPromise' =
          IF \E d \in Dirs :
                \/ fm[a][d].st = "listing"
                \/ \E i \in 1..Len(fm[a][d].promises) :
                      fm[a][d].promises[i].state = "pending"
          THEN refreshDataPromise ELSE NoPromise
    /\ chain' = [chain EXCEPT ![a].fin = chain[a].catch]
    /\ UNCHANGED <<parsers, templates, lastRefreshError, now, server, timers, attempts,
                   fm, reactions, unhandled, web>>

\* Variant: the cleanup in a second .then, which a failed attempt skips
FinallyStepOnSuccess(a) ==
    /\ FinallyReady(a)
    /\ IF chain[a].then = "fulfilled"
       THEN lastRefresh' = now /\ refreshDataPromise' = NoPromise
       ELSE UNCHANGED <<lastRefresh, refreshDataPromise>>
    /\ chain' = [chain EXCEPT ![a].fin = chain[a].catch]
    /\ UNCHANGED <<parsers, templates, lastRefreshError, now, server, timers, attempts,
                   fm, reactions, unhandled, web>>

\* .finally(() => {...}): runs either way and passes the outcome on
FinallyStep(a) ==
    /\ FinallyReady(a)
    /\ lastRefresh' = now
    /\ refreshDataPromise' = NoPromise
    /\ chain' = [chain EXCEPT ![a].fin = chain[a].catch]
    /\ UNCHANGED <<parsers, templates, lastRefreshError, now, server, timers, attempts,
                   fm, reactions, unhandled, web>>

(***************************************************************************)
(* Refresh scheduler                                                       *)
(***************************************************************************)
\* refreshData().catch(e => concole.log(...)): the handler would run only
\* for a rejected promise, and `concole` is not defined
ReactionStep ==
    /\ ReactionReady
    /\ reactions' = Tail(reactions)
    /\ unhandled' = (unhandled \/ chain[Head(reactions)].fin = "rejected")
    /\ UNCHANGED <<registry, now, server, timers, attempts, fm, chain, web>>

\* Variant: a tick also starts a refresh when the last one failed
periodicDataRefreshRetry(rest) ==
    /\ IF REFRESH_INTERVAL < now - lastRefresh \/ lastRefreshError # NoError
       THEN /\ refreshData
            /\ reactions' = Append(reactions, refreshDataPromise')
       ELSE UNCHANGED <<attempts, refreshDataPromise, fm, chain, reactions>>
    /\ timers' = Append(rest, now + CHECK_INTERVAL)
    /\ UNCHANGED <<parsers, templates, lastRefresh, lastRefreshError, now, unhandled, web>>

\* Variant: the next tick is set only by a tick that starts no refresh
periodicDataRefreshOrTimer(rest) ==
    /\ IF REFRESH_INTERVAL < now - lastRefresh
       THEN /\ refreshData
            /\ reactions' = Append(reactions, refreshDataPromise')
            /\ timers' = rest
       ELSE /\ UNCHANGED <<attempts, refreshDataPromise, fm, chain, reactions>>
            /\ timers' = Append(rest, now + CHECK_INTERVAL)
    /\ UNCHANGED <<parsers, templates, lastRefresh, lastRefreshError, now, unhandled, web>>

\* periodicDataRefresh(), the timers other than the one that fired being rest
periodicDataRefresh(rest) ==
    /\ IF REFRESH_INTERVAL < now - lastRefresh
       THEN /\ refreshData
            /\ reactions' = Append(reactions, refreshDataPromise')
       ELSE UNCHANGED <<attempts, refreshDataPromise, fm, chain, reactions>>
    /\ timers' = Append(rest, now + CHECK_INTERVAL)
    /\ UNCHANGED <<parsers, templates, lastRefresh, lastRefreshError, now, unhandled, web>>

\* the callback of polka().listen(...)
Listen(err) ==
    /\ server = "starting"
    /\ IF err
       THEN /\ server' = "crashed"
            /\ UNCHANGED <<registry, now, timers, attempts, fm, chain, reactions, unhandled, web>>
       ELSE /\ server' = "up"
            /\ periodicDataRefresh(timers)

\* a setTimeout callback fires
Tick(k) ==
    /\ k \in 1..Len(timers)
    /\ timers[k] <= now
    /\ LoopIdle
    /\ periodicDataRefresh([i \in 1..(Len(timers) - 1) |->
                               IF i < k THEN timers[i] ELSE timers[i + 1]])
    /\ UNCHANGED server

\* time passes
Advance(dt) ==
    /\ ClockSteps(now) < MaxClockSteps
    /\ LoopIdle
    /\ now' = now + dt
    /\ UNCHANGED <<registry, server, timers, attempts, fm, chain, reactions, unhandled, web>>

(***************************************************************************)
(* Dispatcher                                                              *)
(***************************************************************************)
Undefined == [type |-> "undefined"]

\* Map.prototype.get
MapGet(m, k) ==
    IF MapHas(m, k)
    THEN m[CHOOSE i \in 1..Len(m) : m[i].key = k].value
    ELSE Undefined

\* urls, as <<origin, path>>; NoUrl is an empty or absent url
NoUrl == <<>>
UrlA == <<"https://example.com", "/a">>
UrlB == <<"https://example.com", "/b">>
UrlC == <<"https://cdn.example.com", "/c">>
UrlNoMatch == <<"https://nomatch.example", "/">>
RequestUrls == {NoUrl, UrlA, UrlB, UrlNoMatch}
\* template names a request may carry: one some listings define, and the
\* reserved one, which no catalog holds
RequestTemplates == {DefName("TC"), ORIGINAL_LOOK_NAME}

\* MoyParser.isMatch: definition PA accepts UrlA and UrlB, PB accepts UrlB
isMatch(p, url) ==
    \/ p.def = "PA" /\ url \in {UrlA, UrlB}
    \/ p.def = "PB" /\ url = UrlB

\* MoyParser.getRedirectUrl: definition PA sends UrlA to UrlB, and PB
\* sends UrlB to UrlC
getRedirectUrl(p, url) ==
    IF p.def = "PA" /\ url = UrlA THEN UrlB
    ELSE IF p.def = "PB" /\ url = UrlB THEN UrlC
    ELSE NoUrl

\* Variant: the loop goes on after a match and the last match stands
RECURSIVE findInLast(_, _)
findInLast(vs, url) ==
    IF vs = <<>> THEN Undefined
    ELSE LET later == findInLast(Tail(vs), url)
         IN  IF later # Undefined THEN later
             ELSE IF isMatch(Head(vs), url) THEN Head(vs) ELSE Undefined

\* the inner loop of findValue, over aMap.values(): it returns the first
\* value the predicate accepts
RECURSIVE findIn(_, _)
findIn(vs, url) ==
    IF vs = <<>> THEN Undefined
    ELSE IF isMatch(Head(vs), url) THEN Head(vs)
    ELSE findIn(Tail(vs), url)

\* findValue(mapArray, p => p.isMatch(url)): the maps in turn
RECURSIVE findValue(_, _)
findValue(mapArray, url) ==
    IF mapArray = <<>> THEN Undefined
    ELSE LET v == findIn(MapValues(Head(mapArray)), url)
         IN  IF v # Undefined THEN v ELSE findValue(Tail(mapArray), url)

\* findParser(url): url && findValue([state.parsers], ...)
findParser(url) ==
    IF url = NoUrl THEN Undefined ELSE findValue(<<parsers>>, url)

(***************************************************************************)
(* Rendering pipeline                                                      *)
(***************************************************************************)
\* http.ServerResponse: statusCode, the status line once written, and
\* the query of the request it answers
NewRes(query) == [statusCode |-> 200, head |-> 0, req |-> query]
setStatusCode(res, code) == [res EXCEPT !.statusCode = code]
writeHead(res, code) == [res EXCEPT !.statusCode = code, !.head = code]
\* res.end(body): the status line already written stands
end(res, body) ==
    [status |-> IF res.head # 0 THEN res.head ELSE res.statusCode,
     body |-> body, req |-> res.req]

\* '' + e
ErrorText(step) == <<"Error: ", step>>
IsErrorText(body) == body # <<>> /\ Head(body) = "Error: "

\* the steps of render that can throw, in program order; those of
\* LateSteps run after res.writeHead(200, ...)
EarlySteps == {"redirect", "fetch", "dom", "parse", "tokens", "polish", "eval"}
LateSteps == {"compile", "render"}
PipelineSteps == EarlySteps \cup LateSteps

\* new URL(url).origin
Origin(url) == url[1]

\* customArrayToString: this.join(' ')
RECURSIVE toText(_)
customArrayToString(items) ==
    Join([i \in 1..Len(items) |-> toText(items[i])], " ")
\* Array.prototype.toString: this.join(',')
arrayToString(items) ==
    Join([i \in 1..Len(items) |-> toText(items[i])], ",")
\* the text form of a token value: '' + value
toText(token) ==
    CASE token.t = "str" -> token.v
      [] token.t = "obj" -> <<"[object Object]">>
      [] token.t = "arr" -> IF token.custom THEN customArrayToString(token.items)
                            ELSE arrayToString(token.items)

\* Variant: polishToken without the isObject branch
RECURSIVE polishTokenArraysOnly(_)
polishTokenArraysOnly(token) ==
    CASE token.t = "arr" ->
            [token EXCEPT !.custom = TRUE,
                          !.items = [i \in 1..Len(token.items) |->
                                        polishTokenArraysOnly(token.items[i])]]
      [] OTHER -> token

\* polishToken: an array gets customArrayToString and its elements are
\* polished by forEach; an array being an object too, its elements are
\* polished once more as Object.values, as are the values of an object
RECURSIVE polishToken(_)
polishToken(token) ==
    CASE token.t = "arr" ->
            [token EXCEPT !.custom = TRUE,
                          !.items = [i \in 1..Len(token.items) |->
                                        polishToken(polishToken(token.items[i]))]]
      [] token.t = "obj" ->
            [token EXCEPT !.items = [i \in 1..Len(token.items) |->
                                        polishToken(token.items[i])]]
      [] OTHER -> token

\* MoyParser.parse on the fetched page: the tokens the parser's rules
\* extract, page being what they find in the document
parse(parser, page) ==
    [PARSER |-> Str(<<parser.def, ToString(parser.att)>>), CONTENT |-> page]

\* the tokens render adds to the parsed ones
buildTokens(url) == [BASE_URL |-> <<Origin(url)>>, FULL_URL |-> <<url>>]

\* tokens, after the loop over parsedData.content
allTokens(url, parsedData) ==
    [BASE_URL |-> buildTokens(url).BASE_URL,
     FULL_URL |-> buildTokens(url).FULL_URL,
     PARSER |-> polishToken(parsedData.PARSER),
     CONTENT |-> polishToken(parsedData.CONTENT)]

\* Handlebars.template(compiledTemplateSpec)(tokens): the template's text
\* with the text forms of the tokens
renderText(template, tokens) ==
    <<"<html>", template.def, ToString(template.att)>>
        \o tokens.FULL_URL[1] \o toText(tokens.PARSER) \o toText(tokens.CONTENT)

\* the catch block of render
renderCatch(res, step) == end(setStatusCode(res, 500), ErrorText(step))

\* Variant: the parser is looked up before the template
renderStartParserFirst(query, throws) ==
    LET url == query.url
        templateName == query.template
        res == NewRes(query)
        template == MapGet(templates, templateName)
        parser == findParser(url)
        redirect == getRedirectUrl(parser, url)
    IN  IF parser = Undefined
        THEN [await |-> FALSE,
              sent |-> end(setStatusCode(res, 404),
                           <<"No matching parsers for ">> \o url)]
        ELSE IF template = Undefined
        THEN [await |-> FALSE,
              sent |-> end(setStatusCode(res, 404),
                           <<"Template ">> \o templateName \o <<" not found">>)]
        ELSE IF throws
        THEN [await |-> FALSE, sent |-> renderCatch(res, "redirect")]
        ELSE [await |-> TRUE,
              req |-> [pc |-> "fetching", query |-> query,
                       url |-> IF redirect # NoUrl THEN redirect ELSE url,
                       template |-> template, parser |-> parser]]

\* Variant: the test of the parser is missing, and parser.getRedirectUrl
\* throws on undefined
renderStartNoParserTest(query, throws) ==
    LET url == query.url
        templateName == query.template
        res == NewRes(query)
        template == MapGet(templates, templateName)
        parser == findParser(url)
    IN  IF template = Undefined
        THEN [await |-> FALSE,
              sent |-> end(setStatusCode(res, 404),
                           <<"Template ">> \o templateName \o <<" not found">>)]
        ELSE IF parser = Undefined \/ throws
        THEN [await |-> FALSE, sent |-> renderCatch(res, "redirect")]
        ELSE [await |-> TRUE,
              req |-> [pc |-> "fetching", query |-> query,
                       url |-> IF getRedirectUrl(parser, url) # NoUrl
                               THEN getRedirectUrl(parser, url) ELSE url,
                       template |-> template, parser |-> parser]]

\* Variant: the redirect target is matched and resolved once more
renderStartFollow(query, throws) ==
    LET url == query.url
        templateName == query.template
        res == NewRes(query)
        template == MapGet(templates, templateName)
        parser == findParser(url)
        redirect == getRedirectUrl(parser, url)
        hop == IF redirect # NoUrl THEN redirect ELSE url
        parser2 == IF findParser(hop) # Undefined THEN findParser(hop) ELSE parser
        redirect2 == getRedirectUrl(parser2, hop)
    IN  IF template = Undefined
        THEN [await |-> FALSE,
              sent |-> end(setStatusCode(res, 404),
                           <<"Template ">> \o templateName \o <<" not found">>)]
        ELSE IF parser = Undefined
        THEN [await |-> FALSE,
              sent |-> end(setStatusCode(res, 404),
                           <<"No matching parsers for ">> \o url)]
        ELSE IF throws
        THEN [await |-> FALSE, sent |-> renderCatch(res, "redirect")]
        ELSE [await |-> TRUE,
              req |-> [pc |-> "fetching", query |-> query,
                       url |-> IF redirect2 # NoUrl THEN redirect2 ELSE hop,
                       template |-> template, parser |-> parser2]]

\* render, up to `await fetchFile(...)`: the response it ends with, or the
\* request as it is suspended
renderStart(query, throws) ==
    LET url == query.url
        templateName == query.template
        res == NewRes(query)
        template == MapGet(templates, templateName)
        parser == findParser(url)
        redirect == getRedirectUrl(parser, url)
    IN  IF template = Undefined
        THEN [await |-> FALSE,
              sent |-> end(setStatusCode(res, 404),
                           <<"Template ">> \o templateName \o <<" not found">>)]
        ELSE IF parser = Undefined
        THEN [await |-> FALSE,
              sent |-> end(setStatusCode(res, 404),
                           <<"No matching parsers for ">> \o url)]
        ELSE IF throws
        THEN [await |-> FALSE, sent |-> renderCatch(res, "redirect")]
        ELSE [await |-> TRUE,
              req |-> [pc |-> "fetching", query |-> query,
                       url |-> IF redirect # NoUrl THEN redirect ELSE url,
                       template |-> template, parser |-> parser]]

Render(r, url, templateName, throws) ==
    /\ reqs[r].pc = "idle"
    /\ LoopIdle
    /\ LET step == renderStart([url |-> url, template |-> templateName], throws)
       IN  IF step.await
           THEN reqs' = [reqs EXCEPT ![r] = step.req] /\ UNCHANGED lastResponse
           ELSE lastResponse' = step.sent /\ UNCHANGED reqs
    /\ UNCHANGED <<lastRun, registry, now, server, timers, attempts, fm, chain, reactions, unhandled>>

\* the locals of render once it is past the polish loop
runOf(req, page) ==
    [parsed |-> page, tokens |-> allTokens(req.url, parse(req.parser, page))]

\* Variant: render looks the template up again after the page fetch, and
\* reading template.precompiled throws when it is gone
renderRestLookupAgain(req, failAt, page) ==
    LET template == MapGet(templates, req.query.template)
    IN  IF failAt \in EarlySteps
        THEN renderCatch(NewRes(req.query), failAt)
        ELSE IF template = Undefined
        THEN renderCatch(NewRes(req.query), "eval")
        ELSE IF failAt \in LateSteps
        THEN renderCatch(writeHead(NewRes(req.query), 200), failAt)
        ELSE end(writeHead(NewRes(req.query), 200),
                 renderText(template, runOf(req, page).tokens))

\* the response of render once the page fetch has ended, failAt being the
\* step that throws, or "none"
renderRest(req, failAt, page) ==
    IF failAt \in EarlySteps
    THEN renderCatch(NewRes(req.query), failAt)
    ELSE IF failAt \in LateSteps
    THEN renderCatch(writeHead(NewRes(req.query), 200), failAt)
    ELSE end(writeHead(NewRes(req.query), 200),
             renderText(req.template, runOf(req, page).tokens))

\* Variant: the catch block of render keeps the error in
\* state.lastRefreshError
RenderResumeRecording(r, failAt, page) ==
    /\ reqs[r].pc = "fetching"
    /\ LoopIdle
    /\ lastResponse' = renderRest(reqs[r], failAt, page)
    /\ lastRun' = IF failAt \in {"fetch", "dom", "parse", "tokens", "polish"}
                  THEN NoRun ELSE runOf(reqs[r], page)
    /\ reqs' = [reqs EXCEPT ![r] = NoRequest]
    /\ lastRefreshError' = IF failAt = "none" THEN lastRefreshError
                           ELSE Error(ErrorText(failAt))
    /\ UNCHANGED <<parsers, templates, lastRefresh, refreshDataPromise, now, server,
                   timers, attempts, fm, chain, reactions, unhandled>>

RenderResume(r, failAt, page) ==
    /\ reqs[r].pc = "fetching"
    /\ LoopIdle
    /\ lastResponse' = renderRest(reqs[r], failAt, page)
    /\ lastRun' = IF failAt \in {"fetch", "dom", "parse", "tokens", "polish"}
                  THEN NoRun ELSE runOf(reqs[r], page)
    /\ reqs' = [reqs EXCEPT ![r] = NoRequest]
    /\ UNCHANGED <<registry, now, server, timers, attempts, fm, chain, reactions, unhandled>>

\* what the parser's rules find in the pages of the sites served
Pages == {Arr(<<Str(<<"a">>), Str(<<"b">>)>>)}

Next ==
    \/ \E err \in BOOLEAN : Listen(err)
    \/ \E k \in 1..Len(timers) : Tick(k)
    \/ \E dt \in TimeSteps : Advance(dt)
    \/ \E a \in AttemptIds, d \in Dirs :
          \/ \E outcome \in ListingOutcomes(d) : ListingDone(a, d, outcome)
          \/ \E i \in 1..Len(fm[a][d].promises), outcome \in FileOutcomes(d) : FileDone(a, d, i, outcome)
          \/ FetchMapResume(a, d)
    \/ \E a \in AttemptIds : AllSettle(a) \/ ThenStep(a) \/ CatchStep(a) \/ FinallyStep(a)
    \/ ReactionStep

Spec == Init /\ [][Next]_vars

(***************************************************************************)
(* The server under request traffic, from the moment a timer tick is due:  *)
(* the process has just started, or an earlier refresh has filled the      *)
(* registry and has gone stale.                                            *)
(***************************************************************************)
EarlierEntity(def, i) == createEntity(0, def, i)
FilledRegistry ==
    [p |-> fetchMapValue(<<EarlierEntity("PB", 1), EarlierEntity("PA", 2)>>,
                         EntityFilterOf(PARSERS_DIR)).ok,
     t |-> fetchMapValue(<<EarlierEntity("TO", 1), EarlierEntity("TC", 2)>>,
                         EntityFilterOf(TEMPLATES_DIR)).ok,
     at |-> BootTime - REFRESH_INTERVAL - CHECK_INTERVAL]
EmptyRegistry == [p |-> EmptyMap, t |-> EmptyMap, at |-> 0]

RenderInit ==
    /\ \E reg \in {EmptyRegistry, FilledRegistry} :
          /\ parsers = reg.p
          /\ templates = reg.t
          /\ lastRefresh = reg.at
    /\ refreshDataPromise = NoPromise
    /\ lastRefreshError = NoError
    /\ now = BootTime
    /\ server = "up"
    /\ timers = <<BootTime>>
    /\ attempts = 0
    /\ fm = [a \in AttemptIds |-> [d \in Dirs |-> NoCall]]
    /\ chain = [a \in AttemptIds |-> NoChain]
    /\ reactions = <<>>
    /\ unhandled = FALSE
    /\ reqs = [r \in RequestIds |-> NoRequest]
    /\ lastResponse = NoResponse
    /\ lastRun = NoRun

RenderNext ==
    \/ \E r \in RequestIds, url \in RequestUrls, templateName \in RequestTemplates,
          throws \in BOOLEAN : Render(r, url, templateName, throws)
    \/ \E r \in RequestIds, failAt \in (PipelineSteps \ {"redirect"}) \cup {"none"},
          page \in Pages : RenderResume(r, failAt, page)
    \/ \E k \in 1..Len(timers) : Tick(k)
    \/ \E a \in AttemptIds, d \in Dirs :
          \/ \E outcome \in SchedOutcomes(d) : ListingDone(a, d, outcome)
          \/ \E i \in 1..Len(fm[a][d].promises), outcome \in FileOutcomes(d) : FileDone(a, d, i, outcome)
          \/ FetchMapResume(a, d)
    \/ \E a \in AttemptIds : AllSettle(a) \/ ThenStep(a) \/ CatchStep(a) \/ FinallyStep(a)
    \/ ReactionStep

SpecRender == RenderInit /\ [][RenderNext]_vars

(***************************************************************************)
(* Properties of the refresh                                               *)
(***************************************************************************)
\* the attempts whose returned promise has not settled
InFlight == {a \in AttemptIds : chain[a].fin = "pending"}
\* a step in which a caller invoked refreshData() and kept what it returned
CallStep == Len(reactions') = Len(reactions) + 1
Returned == reactions'[Len(reactions')]

CatalogPairOf(a) ==
    /\ chain[a].all = "fulfilled"
    /\ chain[a].value # <<>>
    /\ parsers = chain[a].value[1].ok
    /\ templates = chain[a].value[2].ok

\* C2: whenever a tick or a request can run, state.parsers and
\* state.templates are the complete pair of one attempt (or both still the
\* initial empty maps)
C2_AtomicCatalogs ==
    LoopIdle =>
        \/ parsers = EmptyMap /\ templates = EmptyMap
        \/ \E a \in AttemptIds : CatalogPairOf(a)

\* a second attempt has replaced a non-empty pair, and readers can run
C2_SecondPair ==
    /\ LoopIdle
    /\ attempts = 2
    /\ CatalogPairOf(2)
    /\ parsers # EmptyMap
    /\ templates # EmptyMap
    /\ \A i \in 1..Len(parsers) : parsers[i].value.att = 2

\* attempt a has run its .then handler and has not settled yet
Settling(a) == chain[a].then # "pending" /\ chain[a].fin = "pending"
BothListed(a) == \A d \in Dirs : fm[a][d].listed
FileIndexes(a, d) == 1..Len(fm[a][d].promises)
\* the entities of attempt a that were fetched and constructed
Built(a, d) ==
    {fm[a][d].promises[i].value :
        i \in {j \in FileIndexes(a, d) : fm[a][d].promises[j].state = "fulfilled"}}
Publishable(a, d) ==
    {e \in Built(a, d) : d = TEMPLATES_DIR => templateFilter(e)}
\* of the entities of one name, the one listed last
LastOfName(entities) ==
    {e \in entities : \A f \in entities : Name(f) = Name(e) => f.idx <= e.idx}
Catalog(d) == IF d = PARSERS_DIR THEN parsers ELSE templates
Entries(m) == {m[i].value : i \in 1..Len(m)}

\* C3: after a refresh whose listings both succeeded, each catalog holds,
\* keyed by name, the entities of this attempt that were fetched and built
\* (minus filtered templates), whichever files failed and in whatever order
\* the fetches ended; of several built files of one name the last listed
\* stands for the name
C3_EntryIsolation ==
    \A a \in AttemptIds : Settling(a) /\ BothListed(a) =>
        \A d \in Dirs :
            /\ Entries(Catalog(d)) = LastOfName(Publishable(a, d))
            /\ Len(Catalog(d)) = Cardinality(Entries(Catalog(d)))
            /\ \A i \in 1..Len(Catalog(d)) :
                  Catalog(d)[i].key = Name(Catalog(d)[i].value)

\* C3 as stated: the catalog holds exactly the entities of this attempt
\* that were fetched and built (minus filtered templates)
C3_EveryBuiltEntry ==
    \A a \in AttemptIds : Settling(a) /\ BothListed(a) =>
        \A d \in Dirs : Entries(Catalog(d)) = Publishable(a, d)

\* a second refresh in which a file failed and its sibling was published
C3_SiblingPublished ==
    \E d \in Dirs :
        /\ Settling(2)
        /\ BothListed(2)
        /\ \E i \in FileIndexes(2, d) : fm[2][d].promises[i].state = "rejected"
        /\ Catalog(d) # EmptyMap

\* the listing of a directory failed in attempt a
ListingFailed(a) ==
    \E d \in Dirs : fm[a][d].st = "rejected" /\ ~fm[a][d].listed

\* C4: a step that changes a catalog replaces both by the pair of one
\* attempt, and an attempt in which a listing failed changes neither
C4_AllOrNothing ==
    [][/\ (parsers' # parsers \/ templates' # templates) =>
             \E a \in AttemptIds :
                /\ chain[a].all = "fulfilled"
                /\ chain[a].then = "pending"
                /\ parsers' = chain[a].value[1].ok
                /\ templates' = chain[a].value[2].ok
       /\ \A a \in AttemptIds :
             ListingFailed(a) /\ chain[a].fin = "pending" =>
                UNCHANGED <<parsers, templates>>]_vars

\* a second attempt is past its handlers with one listing failed, the other
\* directory built in full, and the earlier catalogs in place
C4_ListingFailedOtherBuilt ==
    \E d \in Dirs :
        /\ ListingFailed(2)
        /\ chain[2].catch = "fulfilled"
        /\ fm[2][d].st = "fulfilled"
        /\ fm[2][d].value.error = <<>>
        /\ fm[2][d].value.ok # EmptyMap
        /\ parsers # EmptyMap
        /\ \A i \in 1..Len(parsers) : parsers[i].value.att = 1

\* attempt a is the latest and has settled
LatestSettled(a) == a = attempts /\ chain[a].fin \in {"fulfilled", "rejected"}
EntryFailed(a) ==
    \E d \in Dirs : \E i \in FileIndexes(a, d) :
        fm[a][d].promises[i].state = "rejected"

\* C5: once the latest attempt has settled, state.lastRefreshError is null
\* exactly if no listing and no file of it failed; with a failed file and
\* both listings in, the error is set and the catalogs are the built subset
C5_ErrorRecord ==
    \A a \in AttemptIds : LatestSettled(a) =>
        /\ lastRefreshError = NoError <=> ~(ListingFailed(a) \/ EntryFailed(a))
        /\ EntryFailed(a) /\ BothListed(a) =>
              /\ lastRefreshError # NoError
              /\ parsers = fm[a][PARSERS_DIR].value.ok
              /\ templates = fm[a][TEMPLATES_DIR].value.ok

\* the latest attempt settled with a failed file and a published sibling
C5_PartialSuccess ==
    \E a \in AttemptIds :
        /\ LatestSettled(a)
        /\ EntryFailed(a)
        /\ BothListed(a)
        /\ parsers # EmptyMap

\* C6: state.refreshDataPromise is non-null exactly while an attempt has
\* started and not settled; the step that settles an attempt, whatever its
\* outcome, sets it to null and state.lastRefresh to the current time, and
\* both hold when a waiting caller resumes
C6_Gate ==
    /\ [](/\ refreshDataPromise # NoPromise <=> InFlight # {}
          /\ refreshDataPromise # NoPromise => refreshDataPromise \in InFlight
          /\ ReactionReady => refreshDataPromise = NoPromise /\ lastRefresh = now)
    /\ [][\A a \in AttemptIds :
            chain[a].fin = "pending" /\ chain'[a].fin # "pending" =>
                refreshDataPromise' = NoPromise /\ lastRefresh' = now']_vars

\* a caller is about to resume after an attempt whose listing failed
C6_WaiterAfterListingFailure ==
    /\ ReactionReady
    /\ chain[Head(reactions)].all = "rejected"
    /\ now > BootTime

\* C7: the promise refreshData() returns is never rejected, so no caller
\* leaves a rejection unhandled; the failure is in state.lastRefreshError
C7_NeverRejects ==
    /\ ~unhandled
    /\ \A a \in AttemptIds :
          /\ chain[a].fin # "rejected"
          /\ chain[a].fin = "fulfilled" /\ a = attempts /\ chain[a].then = "rejected" =>
                lastRefreshError # NoError

\* the scheduler's caller has resumed after an attempt that got a
\* malformed listing
C7_MalformedSettled ==
    \E a \in AttemptIds :
        /\ chain[a].fin = "fulfilled"
        /\ a = attempts
        /\ reactions = <<>>
        /\ IsError(lastRefreshError)
        /\ Head(lastRefreshError.message) = "TypeError"

(***************************************************************************)
(* Properties of the scheduler                                             *)
(***************************************************************************)
\* the promise reactions, and the timers phase of the event loop
Micro ==
    \/ ReactionStep
    \/ \E a \in AttemptIds :
          \/ AllSettle(a) \/ ThenStep(a) \/ CatchStep(a) \/ FinallyStep(a)
          \/ \E d \in Dirs : FetchMapResume(a, d)
Timer == \E k \in 1..Len(timers) : Tick(k)

SchedNext ==
    \/ \E err \in BOOLEAN : Listen(err)
    \/ \E k \in 1..Len(timers) : Tick(k)
    \/ \E dt \in TimeSteps : Advance(dt)
    \/ \E a \in AttemptIds, d \in Dirs :
          \/ \E outcome \in SchedOutcomes(d) : ListingDone(a, d, outcome)
          \/ \E i \in 1..Len(fm[a][d].promises), outcome \in FileOutcomes(d) : FileDone(a, d, i, outcome)
    \/ Micro

\* the event loop drains the reactions and runs a timer that is due
SpecFair == Init /\ [][SchedNext]_vars /\ WF_vars(Micro) /\ WF_vars(Timer)

TimerDue == server = "up" /\ \E k \in 1..Len(timers) : timers[k] <= now

\* C8: once the server is up exactly one tick is pending; every run of
\* periodicDataRefresh leaves exactly one next tick, CHECK_INTERVAL ahead,
\* whether or not it starts a refresh and whatever the state or outcome of
\* an earlier one; and a tick that is due fires, leaving the next one ahead
C8_SchedulerNeverStops ==
    /\ [](server = "up" => Len(timers) = 1)
    /\ [][timers' # timers => timers' = <<now + CHECK_INTERVAL>>]_vars
    /\ TimerDue ~> (server = "up" /\ \A k \in 1..Len(timers) : now < timers[k])

\* a tick has fired after a refresh that failed at an earlier time
C8_TickAfterFailure ==
    /\ timers = <<now + CHECK_INTERVAL>>
    /\ IsError(lastRefreshError)
    /\ refreshDataPromise = NoPromise
    /\ 0 < lastRefresh
    /\ lastRefresh < now

(***************************************************************************)
(* Properties of render                                                    *)
(***************************************************************************)
\* C9, as stated: a response whose body is the string form of an error
\* thrown by a step after the lookups has status 500
C9_ThrowIs500 ==
    IsErrorText(lastResponse.body) => lastResponse.status = 500

\* the render function of the template threw
C9_RenderFunctionThrew ==
    /\ IsErrorText(lastResponse.body)
    /\ lastResponse.body = ErrorText("render")

\* a step in which render answered a request before its first await
AnsweredAtOnce == lastResponse' # lastResponse /\ reqs' = reqs
Contains(s, t) ==
    \E i \in 1..(Len(s) - Len(t) + 1) : SubSeq(s, i, i + Len(t) - 1) = t

\* C10: a request whose template name is no key of state.templates is
\* answered 404 with a body that names the template and does not depend
\* on the url, and render starts a page fetch only for a known template
C10_UnknownTemplate ==
    [][/\ AnsweredAtOnce /\ ~MapHas(templates, lastResponse'.req.template) =>
             /\ lastResponse'.status = 404
             /\ lastResponse'.body =
                   <<"Template ">> \o lastResponse'.req.template \o <<" not found">>
             /\ Contains(lastResponse'.body, lastResponse'.req.template)
       /\ \A r \in RequestIds :
             reqs[r].pc = "idle" /\ reqs'[r].pc = "fetching" =>
                MapHas(templates, reqs'[r].query.template)]_vars

\* an unknown template was asked for a url that a parser matches
C10_UnknownForMatchedUrl ==
    /\ lastResponse.status = 404
    /\ templates # EmptyMap
    /\ ~MapHas(templates, lastResponse.req.template)
    /\ findParser(lastResponse.req.url) # Undefined

\* C11: a request for a known template whose url is empty or absent, or
\* accepted by no parser of state.parsers, is answered 404 with a body
\* that names the url, and render starts a page fetch only for a url that a
\* parser accepts
C11_NoParser ==
    [][/\ /\ AnsweredAtOnce
          /\ MapHas(templates, lastResponse'.req.template)
          /\ \A i \in 1..Len(parsers) :
                lastResponse'.req.url = NoUrl
                    \/ ~isMatch(parsers[i].value, lastResponse'.req.url)
          => /\ lastResponse'.status = 404
             /\ lastResponse'.body =
                   <<"No matching parsers for ">> \o lastResponse'.req.url
             /\ Contains(lastResponse'.body, lastResponse'.req.url)
       /\ \A r \in RequestIds :
             reqs[r].pc = "idle" /\ reqs'[r].pc = "fetching" =>
                /\ reqs'[r].query.url # NoUrl
                /\ \E i \in 1..Len(parsers) :
                      isMatch(parsers[i].value, reqs'[r].query.url)]_vars

\* a known template was asked for a url that no parser of a filled
\* catalog accepts
C11_KnownTemplateNoMatch ==
    /\ lastResponse.status = 404
    /\ lastResponse.req.url = UrlNoMatch
    /\ MapHas(templates, lastResponse.req.template)
    /\ parsers # EmptyMap

(***************************************************************************)
(* The dispatcher over parsers catalogs of every order                     *)
(***************************************************************************)
\* the parsers catalogs a refresh can publish from listings of PA and PB
DispatchCatalogs ==
    {NewMap([i \in 1..Len(l) |->
                [key |-> DefName(l[i]), value |-> EarlierEntity(l[i], i)]]) :
        l \in {<<>>, <<"PA">>, <<"PB">>, <<"PA", "PB">>, <<"PB", "PA">>}}

DispatchInit ==
    /\ parsers \in DispatchCatalogs
    /\ templates = FilledRegistry.t
    /\ lastRefresh = BootTime
    /\ refreshDataPromise = NoPromise
    /\ lastRefreshError = NoError
    /\ now = BootTime
    /\ server = "up"
    /\ timers = <<BootTime + CHECK_INTERVAL>>
    /\ attempts = 0
    /\ fm = [a \in AttemptIds |-> [d \in Dirs |-> NoCall]]
    /\ chain = [a \in AttemptIds |-> NoChain]
    /\ reactions = <<>>
    /\ unhandled = FALSE
    /\ reqs = [r \in RequestIds |-> NoRequest]
    /\ lastResponse = NoResponse
    /\ lastRun = NoRun

DispatchNext ==
    \/ \E r \in RequestIds, url \in RequestUrls, templateName \in RequestTemplates,
          throws \in BOOLEAN : Render(r, url, templateName, throws)
    \/ \E r \in RequestIds, failAt \in (PipelineSteps \ {"redirect"}) \cup {"none"},
          page \in Pages : RenderResume(r, failAt, page)

SpecDispatch == DispatchInit /\ [][DispatchNext]_vars

\* the positions of the catalog entries that accept url
Matching(url) == {i \in 1..Len(parsers) : isMatch(parsers[i].value, url)}
FirstMatching(url) ==
    IF Matching(url) = {} THEN Undefined
    ELSE parsers[CHOOSE i \in Matching(url) : \A j \in Matching(url) : i <= j].value

\* C12: for a non-empty url findParser returns the entry earliest in the
\* catalog's iteration order among those that accept the url, and nothing
\* when none does; a request is served with that entry
C12_FirstMatchWins ==
    /\ \A url \in RequestUrls \ {NoUrl} : findParser(url) = FirstMatching(url)
    /\ \A r \in RequestIds :
          reqs[r].pc = "fetching" => reqs[r].parser = FirstMatching(reqs[r].query.url)

\* parser A precedes parser B, both accept the url of the request being
\* served, and A was chosen
C12_BothMatchFirstChosen ==
    \E r \in RequestIds :
        /\ reqs[r].pc = "fetching"
        /\ Matching(reqs[r].query.url) = {1, 2}
        /\ parsers[1].value.def = "PA"
        /\ reqs[r].parser = parsers[1].value

\* a step of the render handler
RenderStep == reqs' # reqs \/ lastResponse' # lastResponse \/ lastRun' # lastRun

C14_ResolvedEntriesKept ==
    [][\A r \in RequestIds :
          /\ reqs[r].pc = "idle" /\ reqs'[r].pc = "fetching" =>
                /\ reqs'[r].template = MapGet(templates, reqs'[r].query.template)
                /\ reqs'[r].parser = findParser(reqs'[r].query.url)
          /\ reqs[r].pc = "fetching" /\ reqs'[r].pc = "fetching" => reqs'[r] = reqs[r]
          /\ /\ reqs[r].pc = "fetching"
             /\ reqs'[r].pc = "idle"
             /\ lastResponse'.status = 200
             /\ ~IsErrorText(lastResponse'.body)
             => /\ lastResponse'.body = renderText(reqs[r].template, lastRun'.tokens)
                /\ lastRun'.tokens.PARSER =
                      Str(<<reqs[r].parser.def, ToString(reqs[r].parser.att)>>)]_vars

\* a request is suspended on its page fetch and a refresh has replaced the
\* catalogs: its template is gone and its url resolves to another entry
C14_SuspendedAcrossRefresh ==
    \E r \in RequestIds :
        /\ reqs[r].pc = "fetching"
        /\ chain[1].then # "pending"
        /\ chain[1].all = "fulfilled"
        /\ ~MapHas(templates, reqs[r].query.template)
        /\ findParser(reqs[r].query.url) # reqs[r].parser

\* C15: state.templates never holds an entry whose name, trimmed, is the
\* reserved name; the other templates built from the same listing are in
\* the catalog under their names
C15_ReservedNameExcluded ==
    /\ \A i \in 1..Len(templates) :
          /\ Trim(templates[i].key) # ORIGINAL_LOOK_NAME
          /\ Trim(Name(templates[i].value)) # ORIGINAL_LOOK_NAME
    /\ \A a \in AttemptIds : Settling(a) /\ BothListed(a) =>
          \A e \in Built(a, TEMPLATES_DIR) :
              Trim(Name(e)) # ORIGINAL_LOOK_NAME => MapHas(templates, Name(e))

\* the templates 'Original look' and 'Compact' were both built, and only
\* 'Compact' is in the catalog
C15_OnlyCompact ==
    \E a \in AttemptIds :
        /\ Settling(a)
        /\ fm[a][TEMPLATES_DIR].dir = <<"TO", "TC">>
        /\ Cardinality(Built(a, TEMPLATES_DIR)) = 2
        /\ MapKeys(templates) = {DefName("TC")}

(***************************************************************************)
(* The polish loop over parsed values of every shape                       *)
(***************************************************************************)
Scalars == {Str(<<"a">>), Str(<<"b">>)}
\* the values nested at most d deep: strings, arrays of up to two elements
\* and objects of one property
RECURSIVE TokenValues(_)
TokenValues(d) ==
    IF d = 0 THEN Scalars
    ELSE LET sub == TokenValues(d - 1)
         IN  Scalars \cup {Arr(<<>>)}
                \cup {Arr(<<x>>) : x \in sub}
                \cup {Arr(<<x, y>>) : x \in sub, y \in sub}
                \cup {Obj(<<x>>) : x \in sub}
PolishPages ==
    TokenValues(MaxDepth) \cup {Arr(<<Str(<<"a">>), Str(<<"b">>), Str(<<"c">>)>>)}

PolishInit == DispatchInit /\ parsers = FilledRegistry.p

\* requests for one page, up to the first that gets through the loop
PolishNext ==
    \/ /\ lastRun = NoRun
       /\ \E r \in RequestIds : Render(r, UrlB, DefName("TC"), FALSE)
    \/ /\ lastRun = NoRun
       /\ \E r \in RequestIds, failAt \in {"none", "render"}, page \in PolishPages :
             RenderResume(r, failAt, page)

SpecPolish == PolishInit /\ [][PolishNext]_vars

\* a value and every value nested in it
RECURSIVE Nodes(_)
Nodes(token) ==
    {token} \cup UNION {Nodes(token.items[i]) : i \in 1..Len(token.items)}
\* the text of a value when every array in it is joined by single spaces
RECURSIVE Flat(_)
Flat(token) ==
    CASE token.t = "str" -> token.v
      [] token.t = "obj" -> <<"[object Object]">>
      [] token.t = "arr" -> Join([i \in 1..Len(token.items) |-> Flat(token.items[i])], " ")
\* a value without the toString properties polishToken sets
RECURSIVE Unpolished(_)
Unpolished(token) ==
    [token EXCEPT !.custom = FALSE,
                  !.items = [i \in 1..Len(token.items) |-> Unpolished(token.items[i])]]

\* C16: after the polish loop the text form of every array of a parsed
\* value, at any depth, in arrays and in objects, is the text forms of its
\* elements joined by single spaces, nested arrays by the same rule; apart
\* from that the value is as it was parsed
C16_SpaceJoined ==
    lastRun # NoRun =>
        /\ \A n \in Nodes(lastRun.tokens.CONTENT) :
              n.t = "arr" => toText(n) = Flat(n)
        /\ Unpolished(lastRun.tokens.CONTENT) = lastRun.parsed

\* ['a', 'b', 'c'] was parsed and reads 'a b c'
C16_ABC ==
    /\ lastRun # NoRun
    /\ lastRun.parsed = Arr(<<Str(<<"a">>), Str(<<"b">>), Str(<<"c">>)>>)
    /\ toText(lastRun.tokens.CONTENT) = <<"a", " ", "b", " ", "c">>
    /\ lastResponse.status = 200

\* C17: render fetches what getRedirectUrl of the parser matched on the
\* original url gives for that url, or the original url when that is empty;
\* the target is neither matched nor resolved again, so the parser that
\* extracts is the one matched on the original url; FULL_URL holds the
\* fetched url alone and BASE_URL its origin alone
C17_SingleHop ==
    [][\A r \in RequestIds :
          /\ reqs[r].pc = "idle" /\ reqs'[r].pc = "fetching" =>
                LET url == reqs'[r].query.url
                    matched == FirstMatching(url)
                IN  /\ reqs'[r].parser = matched
                    /\ reqs'[r].url = IF getRedirectUrl(matched, url) # NoUrl
                                      THEN getRedirectUrl(matched, url) ELSE url
          /\ reqs[r].pc = "fetching" /\ reqs'[r].pc = "idle" /\ lastRun' # NoRun =>
                /\ lastRun'.tokens.FULL_URL = <<reqs[r].url>>
                /\ lastRun'.tokens.BASE_URL = <<reqs[r].url[1]>>
                /\ toText(lastRun'.tokens.PARSER) =
                      <<reqs[r].parser.def, ToString(reqs[r].parser.att)>>]_vars

\* a page was rendered from the target of a redirect which another parser
\* accepts and would redirect again
C17_TargetWouldRedirect ==
    /\ lastResponse.status = 200
    /\ lastResponse.req.url = UrlA
    /\ lastRun # NoRun
    /\ lastRun.tokens.FULL_URL = <<UrlB>>
    /\ lastRun.tokens.BASE_URL = <<"https://example.com">>
    /\ FirstMatching(UrlB) # Undefined
    /\ getRedirectUrl(FirstMatching(UrlB), UrlB) = UrlC

(***************************************************************************)
(* Iteration order of the catalogs                                         *)
(***************************************************************************)
\* a parsers listing in which a name is listed again after another name, and
\* a templates listing
OrderListings(dirname) ==
    IF dirname = PARSERS_DIR THEN {<<"PA", "PB", "PA">>} ELSE {<<"TO", "TC">>}
OrderOutcomes(dirname) ==
    {[kind |-> "ok", dir |-> l] : l \in OrderListings(dirname)}
        \cup {[kind |-> "http", dir |-> <<>>]}

OrderNext ==
    \/ \E err \in BOOLEAN : Listen(err)
    \/ \E k \in 1..Len(timers) : Tick(k)
    \/ \E dt \in TimeSteps : Advance(dt)
    \/ \E a \in AttemptIds, d \in Dirs :
          \/ \E outcome \in OrderOutcomes(d) : ListingDone(a, d, outcome)
          \/ \E i \in 1..Len(fm[a][d].promises), outcome \in FileOutcomes(d) : FileDone(a, d, i, outcome)
    \/ Micro

SpecOrder == Init /\ [][OrderNext]_vars

\* where in the listing of attempt a the name of a published entry is first
\* listed among the files that were fetched and built
FirstListed(a, d, name) ==
    CHOOSE i \in FileIndexes(a, d) :
        /\ fm[a][d].promises[i].value \in Publishable(a, d)
        /\ Name(fm[a][d].promises[i].value) = name
        /\ \A j \in FileIndexes(a, d) :
              /\ fm[a][d].promises[j].value \in Publishable(a, d)
              /\ Name(fm[a][d].promises[j].value) = name
              => i <= j
\* the parser that wins for a url: of the accepting names the first listed,
\* and of that name the file listed last
ListedWinner(a, url) ==
    LET good == LastOfName(Publishable(a, PARSERS_DIR))
        accepting == {e \in good : isMatch(e, url)}
    IN  IF accepting = {} THEN Undefined
        ELSE CHOOSE e \in accepting : \A f \in accepting :
                FirstListed(a, PARSERS_DIR, Name(e)) <= FirstListed(a, PARSERS_DIR, Name(f))

\* C18: in whatever order the file fetches of a refresh ended, the published
\* catalogs iterate their names in the order in which the listing first
\* lists each name among the files that were fetched and built, so that
\* findParser's winner is fixed by the listing and the files' outcomes
C18_ListingOrder ==
    \A a \in AttemptIds : Settling(a) /\ BothListed(a) =>
        /\ \A d \in Dirs : \A i, j \in 1..Len(Catalog(d)) :
              i < j => FirstListed(a, d, Catalog(d)[i].key)
                          < FirstListed(a, d, Catalog(d)[j].key)
        /\ \A url \in RequestUrls \ {NoUrl} : findParser(url) = ListedWinner(a, url)

\* C18 as stated: the published entries iterate in the order of their files
\* in the listing
C18_FileOrder ==
    \A a \in AttemptIds : Settling(a) /\ BothListed(a) =>
        \A d \in Dirs : \A i, j \in 1..Len(Catalog(d)) :
            i < j => Catalog(d)[i].value.idx < Catalog(d)[j].value.idx

\* two parsers that accept one url were published, the first of them under
\* a name that the listing lists again after the second
C18_RelistedNameFirst ==
    \E a \in AttemptIds :
        /\ Settling(a)
        /\ BothListed(a)
        /\ Len(parsers) = 2
        /\ isMatch(parsers[1].value, UrlB)
        /\ isMatch(parsers[2].value, UrlB)
        /\ parsers[2].value.idx < parsers[1].value.idx

(***************************************************************************)
(* Pacing of the refreshes                                                 *)
(***************************************************************************)
\* C19: an attempt starts only on a run of periodicDataRefresh at which more
\* than REFRESH_INTERVAL has passed since state.lastRefresh, and every
\* earlier attempt has settled by then; state.lastRefresh changes only when
\* an attempt settles, failed or not, and then becomes the current time; so
\* no attempt starts within REFRESH_INTERVAL of the last settlement, while
\* the first run, with lastRefresh = 0, always starts one
C19_NoEarlyRetry ==
    /\ [][attempts' # attempts =>
             /\ attempts' = attempts + 1
             /\ timers' # timers
             /\ REFRESH_INTERVAL < now - lastRefresh
             /\ \A a \in 1..attempts :
                   chain[a].fin # "pending" /\ lastRefresh + REFRESH_INTERVAL < now']_vars
    /\ [][lastRefresh' # lastRefresh =>
             /\ lastRefresh' = now
             /\ \E a \in AttemptIds :
                   chain[a].fin = "pending" /\ chain'[a].fin # "pending"]_vars
    /\ [][timers = <<>> /\ timers' # <<>> => lastRefresh = 0 /\ attempts' = 1]_vars

\* a tick has run within REFRESH_INTERVAL of the settlement of an attempt
\* that failed on a directory listing, leaving the catalogs empty, and has
\* started no attempt
C19_TickSoonAfterFailure ==
    /\ attempts = 1
    /\ chain[1].all = "rejected"
    /\ chain[1].fin # "pending"
    /\ parsers = EmptyMap
    /\ templates = EmptyMap
    /\ timers = <<now + CHECK_INTERVAL>>
    /\ now - lastRefresh \in {CHECK_INTERVAL, REFRESH_INTERVAL}

(***************************************************************************)
(* Termination of a refresh                                                *)
(***************************************************************************)
\* the answer to a listing or the download of a file arrives
Net ==
    \E a \in AttemptIds, d \in Dirs :
        \/ \E outcome \in SchedOutcomes(d) : ListingDone(a, d, outcome)
        \/ \E i \in 1..Len(fm[a][d].promises), outcome \in FileOutcomes(d) : FileDone(a, d, i, outcome)

\* every listing and every file fetch ends, and the reactions are drained
SpecLive == Init /\ [][SchedNext]_vars /\ WF_vars(Micro) /\ WF_vars(Net)

\* a listing or a file of attempt a is still being fetched
Outstanding(a) ==
    \E d \in Dirs :
        \/ fm[a][d].st = "listing"
        \/ \E i \in FileIndexes(a, d) : fm[a][d].promises[i].state = "pending"

\* C20: when every listing and file fetch ends, a started attempt settles
\* and state.refreshDataPromise becomes null, and a tick that later finds
\* the data stale starts a new attempt; Promise.all settles only once a
\* listing has failed or every fetch of both directories has ended, and
\* until then the gate holds the attempt and no other attempt starts
C20_SettlesAndReopens ==
    /\ refreshDataPromise # NoPromise ~> (refreshDataPromise = NoPromise /\ InFlight = {})
    /\ [][/\ timers' # timers
          /\ refreshDataPromise = NoPromise
          /\ REFRESH_INTERVAL < now - lastRefresh
          => attempts' = attempts + 1 /\ refreshDataPromise' = attempts']_vars
    /\ [][\A a \in AttemptIds :
             chain[a].all = "pending" /\ chain'[a].all # "pending" =>
                ListingFailed(a) \/ ~Outstanding(a)]_vars
    /\ [](\A a \in AttemptIds :
             Outstanding(a) /\ ~ListingFailed(a) =>
                refreshDataPromise = a /\ attempts = a)

\* C20's converse as stated: while a fetch of an attempt has not ended the
\* gate holds that attempt
C20_GateHeldWhileFetching ==
    \A a \in AttemptIds : Outstanding(a) => refreshDataPromise = a

\* an attempt has settled on a failed listing and reopened the gate while a
\* file of the other directory is still being fetched
C20_ReopenedWithFetchOpen ==
    /\ refreshDataPromise = NoPromise
    /\ chain[1].all = "rejected"
    /\ chain[1].fin = "fulfilled"
    /\ ListingFailed(1)
    /\ \E d \in Dirs : fm[1][d].listed /\ Outstanding(1)

====
